---------------------------- MODULE Spec2Model ----------------------------
(***************************************************************************)
(* Semiconductor stock dashboard: the data pipeline of src/app.py and the  *)
(* two modules named `utils` the repository ships (src/utils.py and        *)
(* src/Modules/utils.py).                                                  *)
(*                                                                         *)
(* Representation.                                                         *)
(*   - a timestamp is a day number (Nat); weekday of day d is              *)
(*     (weekday0 + d) % 7 with 0..4 = Mon..Fri;                            *)
(*   - a pandas Series is a function from its index (a set of days, kept   *)
(*     in increasing order by pandas) to cells;                            *)
(*   - a price cell is a close in thousandths of a currency unit, a volume *)
(*     cell a share count; both are >= 0 and the missing cell (NaN) is -1; *)
(*   - a derived float (rounded price, percent, mean, RSI, normalised      *)
(*     price) is an exact rational <<n, d>> with d > 0; <<0, 0>> is NaN,   *)
(*     <<1, 0>> is +inf and <<-1, 0>> is -inf, as IEEE division gives;     *)
(*   - Python None is the record None.                                     *)
(***************************************************************************)
EXTENDS Integers, Sequences, FiniteSets, TLC

VARIABLES
    utils,                \* which module `from utils import ...` is bound to
    session_state,        \* st.session_state: auto_refresh, last_refresh
    now,                  \* time.time() at the last script run
    selected_stocks,      \* the ticker list of the last run
    provider,             \* what yfinance answers, per ticker, at the last run
    resampled,            \* per ticker: close_data / volume_data_2d of the last fetch
    stock_data,           \* script globals of the last run ...
    volume_data,
    correlation_matrix,
    price_changes,
    technical_indicators,
    normalized_data,
    calls,                \* the utils functions the last run invoked, in order
    outcome,              \* how the last run ended
    runs                  \* history: (inputs, outputs) of recorded runs

vars == <<utils, session_state, now, selected_stocks, provider, resampled,
          stock_data, volume_data, correlation_matrix, price_changes,
          technical_indicators, normalized_data, calls, outcome, runs>>

-----------------------------------------------------------------------------
(* Program constants *)

SEMICONDUCTOR_TICKERS ==
    << "AMD", "INTC", "NVDA", "TSM", "QCOM", "TXN", "AMAT", "ASML",
       "MU", "LRCX", "ADI", "MCHP", "KLAC", "NXPI", "ON" >>

ResampleDays == 2        \* resample('2D')
MA20Window == 20         \* rolling(window=20)
MA50Window == 50         \* rolling(window=50)
RSIWindow == 14          \* rolling(window=14)
RefreshSeconds == 2      \* time.time() - last_refresh >= 2
DefaultCount == 3        \* SEMICONDUCTOR_TICKERS[:3]

-----------------------------------------------------------------------------
(* Values *)

\* price cells count thousandths
PriceScale == 10 * 100

None == [kind |-> "None"]
NaN == 0 - 1
QNaN == <<0, 0>>
QInf == <<1, 0>>
QNegInf == <<0 - 1, 0>>

Range(s) == {s[i] : i \in DOMAIN s}

Min(S) == CHOOSE x \in S : \A y \in S : x <= y
Max(S) == CHOOSE x \in S : \A y \in S : x >= y

RECURSIVE SumOver(_, _)
\* sum of f[x] over x in S
SumOver(f, S) ==
    IF S = {} THEN 0
    ELSE LET x == CHOOSE y \in S : TRUE IN f[x] + SumOver(f, S \ {x})

Sign(n) == IF n > 0 THEN 1 ELSE IF n < 0 THEN 0 - 1 ELSE 0
Abs(n) == IF n < 0 THEN 0 - n ELSE n

RECURSIVE GCD(_, _)
GCD(a, b) == IF b = 0 THEN a ELSE GCD(b, a % b)

\* the rational n / d (d > 0) in lowest terms
Q(n, d) == LET g == GCD(Abs(n), d) IN <<n \div g, d \div g>>

\* a float from a cell counted in 1/scale units
QCell(c, scale) == IF c = NaN THEN QNaN ELSE Q(c, scale)
QInt(n) == <<n, 1>>
QIsNaN(q) == q = QNaN
QIsInf(q) == q[2] = 0 /\ q[1] # 0
QFinite(q) == q[2] > 0

\* IEEE x / y
QDiv(x, y) ==
    IF QIsNaN(x) \/ QIsNaN(y) THEN QNaN
    ELSE IF QIsInf(x) THEN (IF QIsInf(y) THEN QNaN
                            ELSE <<x[1] * (IF y[1] < 0 THEN 0 - 1 ELSE 1), 0>>)
    ELSE IF QIsInf(y) THEN <<0, 1>>
    ELSE IF y[1] = 0 THEN <<Sign(x[1]), 0>>
    ELSE Q(x[1] * y[2] * Sign(y[1]), x[2] * Abs(y[1]))

\* IEEE x + y
QAdd(x, y) ==
    IF QIsNaN(x) \/ QIsNaN(y) THEN QNaN
    ELSE IF QIsInf(x) THEN (IF QIsInf(y) /\ y # x THEN QNaN ELSE x)
    ELSE IF QIsInf(y) THEN y
    ELSE Q(x[1] * y[2] + y[1] * x[2], x[2] * y[2])

QNeg(x) == IF QIsNaN(x) THEN QNaN ELSE <<0 - x[1], x[2]>>
QSub(x, y) == QAdd(x, QNeg(y))

\* IEEE x * n for an integer n > 0
QScale(x, n) == IF QFinite(x) THEN Q(x[1] * n, x[2]) ELSE x

\* n / d rounded to the nearest integer, ties to the even one (d > 0)
RoundHalfEven(n, d) ==
    LET q == n \div d
        r == n - q * d
    IN  IF 2 * r < d THEN q
        ELSE IF 2 * r > d THEN q + 1
        ELSE IF q % 2 = 0 THEN q ELSE q + 1

\* round(x, 2)
Round2(x) == IF QFinite(x) THEN <<RoundHalfEven(100 * x[1], x[2]), 100>> ELSE x

-----------------------------------------------------------------------------
(* pandas *)

\* a frame kept from the run before instead of a new one
StaleFrame ==
    IF stock_data.kind = "DataFrame" THEN stock_data
    ELSE [kind |-> "DataFrame", index |-> {}, columns |-> << >>, col |-> << >>]

\* pd.DataFrame()
EmptyFrame == [kind |-> "DataFrame", index |-> {}, columns |-> << >>, col |-> << >>]

DataFrame(index, columns, col) ==
    [kind |-> "DataFrame", index |-> index, columns |-> columns, col |-> col]

\* DataFrame.empty: no rows or no columns
IsEmpty(df) == df.index = {} \/ df.columns = << >>

\* df[name] = series: an empty-index frame adopts the index of a non-empty
\* series; otherwise the series is reindexed to the frame's index (labels the
\* frame lacks are dropped, labels the series lacks become `na`)
SetItem(df, name, series, na) ==
    LET adopt == df.index = {} /\ DOMAIN series # {}
        index == IF adopt THEN DOMAIN series ELSE df.index
        column == [d \in index |-> IF d \in DOMAIN series THEN series[d] ELSE na]
        names == Range(df.columns) \cup {name}
    IN  DataFrame(index,
                  IF name \in Range(df.columns) THEN df.columns
                  ELSE Append(df.columns, name),
                  [c \in names |->
                      IF c = name THEN column
                      ELSE IF adopt THEN [d \in index |-> na]
                      ELSE df.col[c]])

\* hist['Close'], hist['Volume']
Close(hist) == [d \in DOMAIN hist |-> hist[d].Close]
Volume(hist) == [d \in DOMAIN hist |-> hist[d].Volume]

\* the bins of resample('2D') (origin 'start_day', left-closed): from the
\* first timestamp's day, every ResampleDays days up to the last timestamp
Bins(index) ==
    IF index = {} THEN {}
    ELSE {Min(index) + ResampleDays * k :
             k \in 0 .. ((Max(index) - Min(index)) \div ResampleDays)}

InBin(series, b) ==
    {d \in DOMAIN series : b <= d /\ d < b + ResampleDays}

\* the first value of each bin instead of the last
ResampleFirst(series) ==
    [b \in Bins(DOMAIN series) |->
        LET have == {d \in InBin(series, b) : series[d] # NaN}
        IN  IF have = {} THEN NaN ELSE series[Min(have)]]

\* series.resample('2D').last(): the last non-missing value of each bin
ResampleLast(series) ==
    [b \in Bins(DOMAIN series) |->
        LET have == {d \in InBin(series, b) : series[d] # NaN}
        IN  IF have = {} THEN NaN ELSE series[Max(have)]]

\* series.resample('2D').sum(): missing values skipped, an empty bin sums to 0
ResampleSum(series) ==
    [b \in Bins(DOMAIN series) |->
        LET have == {d \in InBin(series, b) : series[d] # NaN}
        IN  SumOver(series, have)]

\* no fill at all
NoFill(series) == series

\* series.fillna(method='ffill')
FillForward(series) ==
    [d \in DOMAIN series |->
        LET have == {e \in DOMAIN series : e <= d /\ series[e] # NaN}
        IN  IF have = {} THEN NaN ELSE series[Max(have)]]

\* series.fillna(0)
FillZero(series) ==
    [d \in DOMAIN series |-> IF series[d] = NaN THEN 0 ELSE series[d]]

\* series.iloc[0], series.iloc[-1] of a non-empty series
First(series) == series[Min(DOMAIN series)]
Last(series) == series[Max(DOMAIN series)]

\* the last n rows of the index
LastRows(index, n) == {d \in index : Cardinality({e \in index : e >= d}) <= n}

\* series.diff(): NaN in the first row and next to a missing value
Diff(series) ==
    [d \in DOMAIN series |->
        LET before == {e \in DOMAIN series : e < d}
        IN  IF before = {} \/ series[d] = NaN \/ series[Max(before)] = NaN
            THEN [nan |-> TRUE, v |-> 0]
            ELSE [nan |-> FALSE, v |-> series[d] - series[Max(before)]]]

-----------------------------------------------------------------------------
(* src/Modules/utils.py *)

\* lines 53-54: the two resampled series of one ticker
close_data(hist) == FillForward(ResampleLast(Close(hist)))
volume_data_2d(hist) == FillZero(ResampleSum(Volume(hist)))

RECURSIVE FetchLoop(_, _, _, _)
\* the loop of lines 42-61: a raising or empty ticker is skipped
FetchLoop(tickers, resp, data, volume) ==
    IF tickers = << >> THEN <<data, volume>>
    ELSE LET ticker == Head(tickers)
             r == resp[ticker]
         IN  IF r.kind = "raise" \/ DOMAIN r.hist = {}
             THEN FetchLoop(Tail(tickers), resp, data, volume)
             ELSE FetchLoop(Tail(tickers), resp,
                            SetItem(data, ticker, close_data(r.hist), NaN),
                            SetItem(volume, ticker, volume_data_2d(r.hist), NaN))

\* fetch_stock_data(tickers, period): <<data, volume_data>> or <<None, None>>
fetch_stock_data(tickers, resp) ==
    LET r == FetchLoop(tickers, resp, EmptyFrame, EmptyFrame)
    IN  IF IsEmpty(r[1]) THEN <<None, None>> ELSE r

\* the locals close_data / volume_data_2d of the tickers the loop resampled
ResampledLocals(tickers, resp) ==
    [t \in {u \in Range(tickers) : resp[u].kind = "hist" /\ DOMAIN resp[u].hist # {}} |->
        [close |-> close_data(resp[t].hist), volume |-> volume_data_2d(resp[t].hist)]]

\* Pearson's r of two columns over the rows where both are present, as
\* r = cov / sqrt(varx * vary) with the three sums scaled by n * n (values
\* are taken relative to the first common row, which leaves r unchanged);
\* an undefined r (no rows, or a zero variance) has varx * vary = 0
Pearson(x, y) ==
    LET rows == {d \in DOMAIN x : x[d] # NaN /\ y[d] # NaN}
        n == Cardinality(rows)
    IN  IF n = 0 THEN [cov |-> 0, varx |-> 0, vary |-> 0]
        ELSE LET d0 == Min(rows)
                 dx == [d \in rows |-> x[d] - x[d0]]
                 dy == [d \in rows |-> y[d] - y[d0]]
                 sx == SumOver(dx, rows)
                 sy == SumOver(dy, rows)
             IN  [cov |-> n * SumOver([d \in rows |-> dx[d] * dy[d]], rows) - sx * sy,
                  varx |-> n * SumOver([d \in rows |-> dx[d] * dx[d]], rows) - sx * sx,
                  vary |-> n * SumOver([d \in rows |-> dy[d] * dy[d]], rows) - sy * sy]

\* data.corr()
Corr(data) ==
    [kind |-> "Matrix", columns |-> data.columns,
     cell |-> [a \in Range(data.columns) |->
                 [b \in Range(data.columns) |-> Pearson(data.col[a], data.col[b])]]]

calculate_correlation(data) ==
    IF data # None /\ ~IsEmpty(data) THEN Corr(data) ELSE None

\* lines 88-98: first and last row of every column
PriceChanges(data) ==
    [column \in Range(data.columns) |->
        LET initial_price == QCell(First(data.col[column]), PriceScale)
            final_price == QCell(Last(data.col[column]), PriceScale)
            percent_change ==
                QScale(QDiv(QSub(final_price, initial_price), initial_price), 100)
        IN  [initial_price |-> Round2(initial_price),
             final_price |-> Round2(final_price),
             percent_change |-> Round2(percent_change)]]

get_price_changes(data) ==
    IF data = None \/ IsEmpty(data) THEN None ELSE PriceChanges(data)

\* series.rolling(window).mean().iloc[-1]
RollingMeanLast(series, window) ==
    LET rows == LastRows(DOMAIN series, window)
    IN  IF Cardinality(DOMAIN series) < window \/ \E d \in rows : series[d] = NaN
        THEN QNaN
        ELSE Q(SumOver(series, rows), window * PriceScale)

\* lines 115-119 and 123: rsi.iloc[-1]
RSILast(series) ==
    LET delta == Diff(series)
        rows == LastRows(DOMAIN series, RSIWindow)
        \* delta.where(delta > 0, 0) and -delta.where(delta < 0, 0)
        up == [d \in DOMAIN series |->
                 IF ~delta[d].nan /\ delta[d].v > 0 THEN delta[d].v ELSE 0]
        down == [d \in DOMAIN series |->
                   IF ~delta[d].nan /\ delta[d].v < 0 THEN 0 - delta[d].v ELSE 0]
        short == Cardinality(DOMAIN series) < RSIWindow
        gain == IF short THEN QNaN ELSE Q(SumOver(up, rows), RSIWindow * PriceScale)
        loss == IF short THEN QNaN ELSE Q(SumOver(down, rows), RSIWindow * PriceScale)
        rs == QDiv(gain, loss)
    IN  QSub(QInt(100), QDiv(QInt(100), QAdd(QInt(1), rs)))

TechnicalIndicators(data) ==
    [column \in Range(data.columns) |->
        [MA20 |-> RollingMeanLast(data.col[column], MA20Window),
         RSI |-> RSILast(data.col[column])]]

calculate_technical_indicators(data) ==
    IF data = None \/ IsEmpty(data) THEN None ELSE TechnicalIndicators(data)

RECURSIVE NormalizeLoop(_, _, _)
\* lines 137-138
NormalizeLoop(columns, data, normalized) ==
    IF columns = << >> THEN normalized
    ELSE LET column == Head(columns)
             first == QCell(First(data.col[column]), PriceScale)
         IN  NormalizeLoop(Tail(columns), data,
                 SetItem(normalized, column,
                         [d \in data.index |->
                             QScale(QDiv(QCell(data.col[column][d], PriceScale), first), 100)],
                         QNaN))

\* normalize_data without the test for an empty table
normalize_data_unguarded(data) ==
    IF data = None THEN None ELSE NormalizeLoop(data.columns, data, EmptyFrame)

normalize_data(data) ==
    IF data = None \/ IsEmpty(data) THEN None
    ELSE NormalizeLoop(data.columns, data, EmptyFrame)

-----------------------------------------------------------------------------
(* src/utils.py *)

RECURSIVE UtilsFetchLoop(_, _, _, _)
\* the loop of lines 35-39 inside the one try of lines 32-42: the daily
\* series go into the frames as they come, and a raising ticker ends the call
UtilsFetchLoop(tickers, resp, data, volume) ==
    IF tickers = << >> THEN <<data, volume>>
    ELSE LET ticker == Head(tickers)
             r == resp[ticker]
         IN  IF r.kind = "raise" THEN <<None, None>>
             ELSE UtilsFetchLoop(Tail(tickers), resp,
                                 SetItem(data, ticker, Close(r.hist), NaN),
                                 SetItem(volume, ticker, Volume(r.hist), NaN))

utils_fetch_stock_data(tickers, resp) ==
    UtilsFetchLoop(tickers, resp, EmptyFrame, EmptyFrame)

utils_calculate_correlation(data) ==
    IF data # None /\ ~IsEmpty(data) THEN Corr(data) ELSE None

utils_get_price_changes(data) ==
    IF data = None \/ IsEmpty(data) THEN None ELSE PriceChanges(data)

utils_calculate_technical_indicators(data) ==
    IF data = None \/ IsEmpty(data) THEN None
    ELSE [column \in Range(data.columns) |->
            [MA20 |-> RollingMeanLast(data.col[column], MA20Window),
             MA50 |-> RollingMeanLast(data.col[column], MA50Window),
             RSI |-> RSILast(data.col[column])]]

utils_normalize_data(data) ==
    IF data = None \/ IsEmpty(data) THEN None
    ELSE NormalizeLoop(data.columns, data, EmptyFrame)

-----------------------------------------------------------------------------
(* The data provider: what stock.history(period, interval='1d') may answer *)

NoDay == 0 - 1

IsTradingDay(weekday0, holiday, d) == (weekday0 + d) % 7 < 5 /\ d # holiday

\* the first len trading days from day start on (5 of every 7 days trade,
\* less one holiday)
TradingDays(weekday0, holiday, start, len) ==
    {d \in start .. (start + 3 * len + 2) :
        /\ IsTradingDay(weekday0, holiday, d)
        /\ Cardinality({e \in start .. d : IsTradingDay(weekday0, holiday, e)}) <= len}

\* the closes (in thousandths) and volumes a ticker's k-th sample carries
ClosesOf(ticker) ==
    IF ticker = "AMD" THEN <<10000, 12000, 9000, 15000, 20000>>
    ELSE IF ticker = "INTC" THEN <<33333, 33338, 33325, 33346, 33315>>
    ELSE <<4005, 4015, 4025, 4035, 4045>>

KthClose(ticker, k) == ClosesOf(ticker)[((k - 1) % Len(ClosesOf(ticker))) + 1]
KthVolume(ticker, k) == 100 * k + Len(ticker)

HistOf(ticker, days) ==
    [d \in days |->
        LET k == Cardinality({e \in days : e <= d})
        IN  [Close |-> KthClose(ticker, k), Volume |-> KthVolume(ticker, k)]]

\* what the provider does for one ticker: raise, an empty frame, or the
\* daily rows of a run of trading days
Behaviours(maxStart, maxLen, holidays) ==
    {[kind |-> "raise", start |-> 0, len |-> 0, holiday |-> NoDay],
     [kind |-> "empty", start |-> 0, len |-> 0, holiday |-> NoDay]}
    \cup [kind : {"hist"}, start : 0 .. maxStart, len : 1 .. maxLen, holiday : holidays]

Answer(ticker, b, weekday0) ==
    IF b.kind = "raise" THEN [kind |-> "raise"]
    ELSE [kind |-> "hist",
          hist |-> IF b.kind = "empty" THEN << >>
                   ELSE HistOf(ticker, TradingDays(weekday0, b.holiday, b.start, b.len))]

-----------------------------------------------------------------------------
(* src/app.py *)

Unset == [kind |-> "unset"]

\* `from utils import ...`
BoundFetch(u, tickers, resp) ==
    IF u = "utils" THEN utils_fetch_stock_data(tickers, resp)
    ELSE fetch_stock_data(tickers, resp)
BoundCorrelation(u, data) ==
    IF u = "utils" THEN utils_calculate_correlation(data) ELSE calculate_correlation(data)
BoundPriceChanges(u, data) ==
    IF u = "utils" THEN utils_get_price_changes(data) ELSE get_price_changes(data)
BoundIndicators(u, data) ==
    IF u = "utils" THEN utils_calculate_technical_indicators(data)
    ELSE calculate_technical_indicators(data)
BoundNormalize(u, data) ==
    IF u = "utils" THEN utils_normalize_data(data) ELSE normalize_data(data)

\* lines 83-91: the multiselect's value, or the default when it is empty
Selected(sel) ==
    IF sel = << >> THEN SubSeq(SEMICONDUCTOR_TICKERS, 1, DefaultCount) ELSE sel

\* lines 147-153: technical_indicators[ticker] for every selected ticker
IndicatorLookupFails(selected, indicators) ==
    /\ indicators # None
    /\ DOMAIN indicators # {}
    /\ \E i \in DOMAIN selected : selected[i] \notin DOMAIN indicators

Inputs(selected, resp) == [tickers |-> selected, responses |-> resp]

\* lines 106-109
Statistics(u, data) ==
    [correlation_matrix |-> BoundCorrelation(u, data),
     price_changes |-> BoundPriceChanges(u, data),
     technical_indicators |-> BoundIndicators(u, data),
     normalized_data |-> BoundNormalize(u, data)]

StatisticsCalls ==
    <<"calculate_correlation", "get_price_changes",
      "calculate_technical_indicators", "normalize_data">>

\* lines 94-96: st.rerun() before anything is fetched
Rerun(auto, dt, sel, resp) ==
    /\ session_state' = [auto_refresh |-> auto, last_refresh |-> now + dt]
    /\ resampled' = << >>
    /\ stock_data' = Unset /\ volume_data' = Unset
    /\ correlation_matrix' = Unset /\ price_changes' = Unset
    /\ technical_indicators' = Unset /\ normalized_data' = Unset
    /\ calls' = << >>
    /\ outcome' = "rerun"
    /\ UNCHANGED runs

\* lines 98-168: fetch; stop on None; else the statistics and the page
Pipeline(auto, dt, sel, resp, record) ==
    \E fetched \in {BoundFetch(utils, Selected(sel), resp)} :
        /\ session_state' = [session_state EXCEPT !.auto_refresh = auto]
        /\ resampled' = IF utils = "utils" THEN << >>
                        ELSE ResampledLocals(Selected(sel), resp)
        /\ stock_data' = fetched[1]
        /\ volume_data' = fetched[2]
        /\ IF fetched[1] = None
           THEN /\ correlation_matrix' = Unset /\ price_changes' = Unset
                /\ technical_indicators' = Unset /\ normalized_data' = Unset
                /\ calls' = <<"fetch_stock_data">>
                /\ outcome' = "stop"
           ELSE \E st \in {Statistics(utils, fetched[1])} :
                /\ correlation_matrix' = st.correlation_matrix
                /\ price_changes' = st.price_changes
                /\ technical_indicators' = st.technical_indicators
                /\ normalized_data' = st.normalized_data
                /\ calls' = <<"fetch_stock_data">> \o StatisticsCalls
                /\ outcome' = IF IndicatorLookupFails(Selected(sel), st.technical_indicators)
                              THEN "KeyError" ELSE "end"
        /\ runs' = IF record
                   THEN runs \cup
                        {[at |-> now + dt,
                          inputs |-> Inputs(Selected(sel), resp),
                          outputs |-> <<stock_data', volume_data', correlation_matrix',
                                        price_changes', technical_indicators',
                                        normalized_data', outcome'>>]}
                   ELSE runs

\* One run of the script, dt seconds after the last one: the sidebar's
\* values are auto and sel, and resp[t] is the provider's answer for ticker t.
ScriptRun(auto, dt, sel, resp, record) ==
    /\ now' = now + dt
    /\ selected_stocks' = Selected(sel)
    /\ provider' = resp
    /\ UNCHANGED utils
    /\ IF auto /\ (now + dt) - session_state.last_refresh >= RefreshSeconds
       THEN Rerun(auto, dt, sel, resp)
       ELSE Pipeline(auto, dt, sel, resp, record)

-----------------------------------------------------------------------------
(* Bounds *)

MaxTime == 2         \* seconds the clock runs
MaxOptions == 3      \* tickers offered by the multiselect
MaxSelect == 2       \* tickers a user picks (none: the default three)
MaxStart == 2        \* latest first day of a ticker's history
MaxLen == 3          \* longest history, in trading days

Options == SubSeq(SEMICONDUCTOR_TICKERS, 1, MaxOptions)

\* the weekday of day 0: Monday (three trading days in a row) or Thursday
\* (a weekend after the second)
StartWeekdays == {0, 3}

\* ordered selections without repetition
Selections(options, maxSelect) ==
    {s \in UNION {[1 .. n -> Range(options)] : n \in 0 .. maxSelect} :
        \A i, j \in DOMAIN s : i # j => s[i] # s[j]}

\* the provider's answers for the tickers of a selection
Markets(sel, behaviours, weekdays) ==
    {[t \in Range(Selected(sel)) |-> Answer(t, b[t], weekday0)] :
        b \in [Range(Selected(sel)) -> behaviours], weekday0 \in weekdays}

\* the session before its first run: the sidebar holds sel, the provider
\* will answer resp
Boot(sel, resp) ==
    /\ utils \in {"utils", "Modules.utils"}
    /\ session_state = [auto_refresh |-> TRUE, last_refresh |-> 0]
    /\ now = 0
    /\ selected_stocks = sel
    /\ provider = resp
    /\ resampled = << >>
    /\ stock_data = Unset /\ volume_data = Unset
    /\ correlation_matrix = Unset /\ price_changes = Unset
    /\ technical_indicators = Unset /\ normalized_data = Unset
    /\ calls = << >>
    /\ outcome = "init"
    /\ runs = {}

\* a run, and re-runs, of the script on the sidebar's selection
Run ==
    \E auto \in BOOLEAN, dt \in 0 .. RefreshSeconds :
        /\ now + dt <= MaxTime
        /\ ScriptRun(auto, dt, selected_stocks, provider, FALSE)

\* The dashboard on any selection of up to MaxSelect tickers, each ticker's
\* history starting and ending on its own day.
Init ==
    \E sel \in Selections(Options, MaxSelect) :
        \E resp \in Markets(sel, Behaviours(MaxStart, MaxLen, {NoDay}), StartWeekdays) :
            Boot(sel, resp)

Next == Run

Spec == Init /\ [][Next]_vars

-----------------------------------------------------------------------------
(* Single-ticker sessions: one ticker, histories of up to a week of trading *)
(* days starting on any weekday, with or without a holiday                  *)

SingleMaxStart == 2
SingleMaxLen == 5
MaxHoliday == 2      \* the holiday, if any, is one of days 0 .. MaxHoliday

InitSingle ==
    \E i \in 1 .. MaxOptions :
        \E resp \in Markets(<<Options[i]>>,
                            Behaviours(SingleMaxStart, SingleMaxLen,
                                       {NoDay} \cup (0 .. MaxHoliday)),
                            0 .. 4) :
            Boot(<<Options[i]>>, resp)

NextSingle == Run

SpecSingle == InitSingle /\ [][NextSingle]_vars

-----------------------------------------------------------------------------
(* The statistics functions on any table: None, empty frames, and frames of *)
(* one or two columns of up to MaxRows rows                                 *)

MaxRows == 20
Base == 5003 + 0
Step == 7 + 0
Slopes == {0 - Step, 0, Step}

RowIndex(n) == {ResampleDays * i : i \in 0 .. (n - 1)}

\* n prices: from Base, k steps of d1, then steps of d2
ShapeColumn(n, k, d1, d2) ==
    [d \in RowIndex(n) |->
        LET i == d \div ResampleDays
        IN  Base + d1 * (IF i < k THEN i ELSE k) + d2 * (IF i < k THEN 0 ELSE i - k)]

\* the column with its first row missing
Leading(column) ==
    [d \in DOMAIN column |-> IF d = Min(DOMAIN column) THEN NaN ELSE column[d]]

ShapeFrames ==
    {DataFrame(RowIndex(n), <<"AMD">>, [c \in {"AMD"} |-> ShapeColumn(n, k, d1, d2)]) :
        n \in 1 .. MaxRows, k \in 0 .. MaxRows, d1 \in Slopes, d2 \in Slopes}
    \cup
    {DataFrame(RowIndex(n), <<"AMD", "INTC">>,
               [c \in {"AMD", "INTC"} |->
                   IF c = "AMD" THEN ShapeColumn(n, k, d1, d2)
                   ELSE Leading(ShapeColumn(n, k, d2, d1))]) :
        n \in 1 .. MaxRows, k \in 0 .. MaxRows, d1 \in Slopes, d2 \in Slopes}

TableInputs ==
    {None, EmptyFrame, DataFrame({}, <<"AMD">>, [c \in {"AMD"} |-> << >>])}
    \cup ShapeFrames

InitStats ==
    /\ utils \in {"utils", "Modules.utils"}
    /\ session_state = [auto_refresh |-> TRUE, last_refresh |-> 0]
    /\ now = 0
    /\ selected_stocks = << >>
    /\ provider = << >>
    /\ resampled = << >>
    /\ stock_data \in TableInputs
    /\ volume_data = Unset
    /\ correlation_matrix = Unset /\ price_changes = Unset
    /\ technical_indicators = Unset /\ normalized_data = Unset
    /\ calls = << >>
    /\ outcome = "init"
    /\ runs = {}

\* the four calls of lines 106-109 on the table at hand
CallStatistics ==
    /\ calls = << >>
    /\ \E st \in {Statistics(utils, stock_data)} :
        /\ correlation_matrix' = st.correlation_matrix
        /\ price_changes' = st.price_changes
        /\ technical_indicators' = st.technical_indicators
        /\ normalized_data' = st.normalized_data
    /\ calls' = StatisticsCalls
    /\ outcome' = "returned"
    /\ UNCHANGED <<utils, session_state, now, selected_stocks, provider, resampled,
                   stock_data, volume_data, runs>>

NextStats == CallStatistics

SpecStats == InitStats /\ [][NextStats]_vars

-----------------------------------------------------------------------------
(* Sessions whose every run has a selection and provider answers of its own, *)
(* with up to MaxRecorded of the runs recorded in `runs`                     *)

MaxRecorded == 1

RunSelections == {<<"AMD">>, <<"AMD", "INTC">>}
RunBehaviours ==
    {b \in Behaviours(1, 1, {NoDay}) : b.kind # "empty"}

InitRuns == Boot(<< >>, << >>)

FreshRun ==
    \E auto \in BOOLEAN, dt \in 0 .. RefreshSeconds, record \in BOOLEAN,
       sel \in RunSelections :
        \E resp \in Markets(sel, RunBehaviours, {0}) :
            /\ now + dt <= MaxTime
            /\ record => Cardinality(runs) < MaxRecorded
            /\ ScriptRun(auto, dt, sel, resp, record)

NextRuns == FreshRun

SpecRuns == InitRuns /\ [][NextRuns]_vars

-----------------------------------------------------------------------------
(* Claims *)

IsFrame(x) == x.kind = "DataFrame"

\* the last run called fetch_stock_data
Fetched == calls # << >> /\ Head(calls) = "fetch_stock_data"

\* the provider returned non-empty data for t without raising
Usable(t) == provider[t].kind = "hist" /\ DOMAIN provider[t].hist # {}
UsableTickers == {t \in Range(selected_stocks) : Usable(t)}
FailedTickers == Range(selected_stocks) \ UsableTickers

\* C1: whenever fetch_stock_data ran and at least one ticker returned
\* non-empty data, the call did not fail and the price and volume tables hold
\* a column for exactly the tickers that returned non-empty data without
\* raising, wherever the failing or empty tickers stand in the list.
C1_PerTickerIsolation ==
    (Fetched /\ UsableTickers # {}) =>
        /\ stock_data # None /\ volume_data # None
        /\ Range(stock_data.columns) = UsableTickers
        /\ Range(volume_data.columns) = UsableTickers

\* C2: whenever a run fetched and no requested ticker yielded usable data,
\* fetch_stock_data reported (None, None) and the run stopped before any of
\* the four statistics functions was called.
C2_HaltsWithoutData ==
    (Fetched /\ UsableTickers = {}) =>
        /\ stock_data = None /\ volume_data = None
        /\ calls = <<"fetch_stock_data">>
        /\ outcome = "stop"

\* C3: whenever some but not all selected tickers failed to fetch (through the
\* fetch_stock_data that skips a failed ticker), the run went on to its end, and the failed tickers are absent from the price table,
\* the volume table, the correlation matrix, the price changes, the indicators
\* and the normalized table; no later step (the lookup of RSI and MA20 per
\* selected ticker included) failed.
C3_PartialDataLoss ==
    (utils = "Modules.utils" /\ Fetched /\ UsableTickers # {} /\ FailedTickers # {}) =>
        /\ outcome = "end"
        /\ \A t \in FailedTickers :
            /\ t \notin Range(stock_data.columns)
            /\ t \notin Range(volume_data.columns)
            /\ t \notin Range(correlation_matrix.columns)
            /\ t \notin DOMAIN price_changes
            /\ t \notin DOMAIN technical_indicators
            /\ t \notin Range(normalized_data.columns)

\* no missing cell after the column's first present cell
NoInteriorGap(column) ==
    \A d, e \in DOMAIN column : (d < e /\ column[d] # NaN) => column[e] # NaN

\* C4: whenever the resampling fetch_stock_data fetched two or more tickers,
\* its price and volume tables have one index common to all columns, no price
\* column has a missing value after its first present value, and no volume
\* cell is missing (a cell without samples holds 0).
C4_AlignedTable ==
    (utils = "Modules.utils" /\ Fetched /\ Cardinality(UsableTickers) >= 2) =>
        /\ IsFrame(stock_data) /\ IsFrame(volume_data)
        /\ stock_data.index = volume_data.index
        /\ \A t \in Range(stock_data.columns) :
            /\ DOMAIN stock_data.col[t] = stock_data.index
            /\ NoInteriorGap(stock_data.col[t])
        /\ \A t \in Range(volume_data.columns) :
            /\ DOMAIN volume_data.col[t] = volume_data.index
            /\ \A d \in volume_data.index : volume_data.col[t][d] # NaN

Present(column) == {d \in DOMAIN column : column[d] # NaN}

\* C5: for every column of a non-empty price table that has a present value,
\* get_price_changes reports the first and the last present value of the
\* column as initial_price and final_price, and (final - initial) / initial *
\* 100 as percent_change, each rounded to 2 decimals.
C5_PriceChanges ==
    (Fetched /\ IsFrame(stock_data) /\ ~IsEmpty(stock_data)) =>
        /\ price_changes # None
        /\ \A t \in Range(stock_data.columns) :
            LET column == stock_data.col[t]
                initial == QCell(column[Min(Present(column))], PriceScale)
                final == QCell(column[Max(Present(column))], PriceScale)
            IN  Present(column) # {} =>
                    /\ price_changes[t].initial_price = Round2(initial)
                    /\ price_changes[t].final_price = Round2(final)
                    /\ price_changes[t].percent_change =
                           Round2(QScale(QDiv(QSub(final, initial), initial), 100))

\* the scenario: one selected ticker whose history is the closes 10, 12, 9,
\* 15, 20 on 5 consecutive business days, fetched with the 2-day resampling
ScenarioCloses == <<10 * PriceScale, 12 * PriceScale, 9 * PriceScale,
                    15 * PriceScale, 20 * PriceScale>>

IsScenario(t) ==
    /\ utils = "Modules.utils"
    /\ Fetched
    /\ selected_stocks = <<t>>
    /\ provider[t].kind = "hist"
    /\ LET hist == provider[t].hist
       IN  /\ Cardinality(DOMAIN hist) = Len(ScenarioCloses)
           /\ \A d \in DOMAIN hist :
                 hist[d].Close = ScenarioCloses[Cardinality({e \in DOMAIN hist : e <= d})]
           /\ \A d \in DOMAIN hist : d # Max(DOMAIN hist) =>
                 \* the next sample is the next day, or three days on (the
                 \* Monday after a Friday), at most once in five days
                 LET next == Min({e \in DOMAIN hist : e > d})
                 IN  next = d + 1 \/ next = d + 3
           /\ Max(DOMAIN hist) - Min(DOMAIN hist) \in {4, 6}

\* the first two samples fall on adjacent days (the same 2-day bin)
FirstTwoAdjacent(t) ==
    LET days == DOMAIN provider[t].hist IN (Min(days) + 1) \in days

Money(cents) == <<cents, 100>>

\* C6 as stated: in the scenario the price-change summary is initial 10,
\* final 20, percent 100.00.
C6_ScenarioAsStated ==
    \A t \in Range(Options) : IsScenario(t) =>
        price_changes[t] = [initial_price |-> Money(1000), final_price |-> Money(2000),
                            percent_change |-> Money(10000)]

\* C6 amended: in the scenario the summary's final price is 20 and its initial
\* price is the last close of the first 2-day bin: initial 12 and percent
\* 66.67 when the first two days are adjacent, initial 10 and percent 100.00
\* when the series starts on a Friday.
C6_ScenarioFirstBin ==
    \A t \in Range(Options) : IsScenario(t) =>
        price_changes[t] =
            IF FirstTwoAdjacent(t)
            THEN [initial_price |-> Money(1200), final_price |-> Money(2000),
                  percent_change |-> Money(6667)]
            ELSE [initial_price |-> Money(1000), final_price |-> Money(2000),
                  percent_change |-> Money(10000)]

\* the scenario on a series that starts on a Monday has been run
C6_Witness ==
    \E t \in Range(Options) :
        /\ IsScenario(t)
        /\ DOMAIN provider[t].hist = 0 .. 4
        /\ price_changes[t].initial_price = Money(1200)

\* the four statistics functions have been called on the table stock_data
Called == calls # << >> /\ SubSeq(calls, Len(calls) - 3, Len(calls)) = StatisticsCalls

\* C7: for every column with at least 14 present samples, the RSI reported by
\* calculate_technical_indicators is a number in [0, 100], never NaN nor
\* infinite, also when the mean loss or the mean gain of the window is 0.
C7_RSIBounded ==
    (Called /\ IsFrame(stock_data) /\ ~IsEmpty(stock_data)) =>
        \A t \in Range(stock_data.columns) :
            Cardinality(Present(stock_data.col[t])) >= RSIWindow =>
                LET rsi == technical_indicators[t].RSI
                IN  QFinite(rsi) /\ 0 <= rsi[1] /\ rsi[1] <= 100 * rsi[2]

NoData(table) == table = None \/ IsEmpty(table)

\* C8: each of calculate_correlation, get_price_changes,
\* calculate_technical_indicators and normalize_data returns None for None
\* and for a table without rows or without columns, and for any other table
\* a result that is not None and has one entry (column) per input column.
C8_EmptyInputSentinel ==
    Called =>
        IF NoData(stock_data)
        THEN /\ correlation_matrix = None
             /\ price_changes = None
             /\ technical_indicators = None
             /\ normalized_data = None
        ELSE /\ correlation_matrix # None
             /\ correlation_matrix.columns = stock_data.columns
             /\ DOMAIN correlation_matrix.cell = Range(stock_data.columns)
             /\ price_changes # None
             /\ DOMAIN price_changes = Range(stock_data.columns)
             /\ technical_indicators # None
             /\ DOMAIN technical_indicators = Range(stock_data.columns)
             /\ normalized_data # None
             /\ normalized_data.columns = stock_data.columns
             /\ DOMAIN normalized_data.col = Range(stock_data.columns)

\* the functions have been called on a table with a column and no rows
C8_Witness ==
    /\ Called
    /\ IsFrame(stock_data) /\ stock_data.index = {} /\ stock_data.columns # << >>
    /\ normalized_data = None

Completed == outcome \in {"stop", "end", "KeyError"}

Outputs ==
    <<stock_data, volume_data, correlation_matrix, price_changes,
      technical_indicators, normalized_data, outcome>>

HistDays == UNION {DOMAIN provider[t].hist : t \in UsableTickers}

\* the table's columns are tickers of this run, its rows days of this run's
\* histories, and its cells missing or within what this run's provider gave
FromThisRun(table, field) ==
    IsFrame(table) =>
        /\ Range(table.columns) \subseteq UsableTickers \cup Range(selected_stocks)
        /\ \A d \in table.index :
              (\E e \in HistDays : e <= d) /\ (\E e \in HistDays : d <= e)
        /\ \A t \in Range(table.columns) : \A d \in table.index :
              \/ table.col[t][d] = NaN
              \/ /\ Usable(t)
                 /\ table.col[t][d] <=
                       SumOver([e \in DOMAIN provider[t].hist |-> provider[t].hist[e][field]],
                               DOMAIN provider[t].hist)
                 /\ field = "Close" =>
                       \E e \in DOMAIN provider[t].hist :
                           provider[t].hist[e].Close = table.col[t][d]

Keys(table) ==
    IF table = None \/ table = Unset THEN {}
    ELSE IF "columns" \in DOMAIN table THEN Range(table.columns)
    ELSE DOMAIN table

\* C9: a completed run's tables and statistics are those of every recorded
\* run that had the same ticker list and provider answers, whatever runs came
\* between, and they hold no column, row or value that is not of this run.
C9_Stateless ==
    Completed =>
        /\ \A r \in runs :
              r.inputs = Inputs(selected_stocks, provider) => r.outputs = Outputs
        /\ FromThisRun(stock_data, "Close")
        /\ FromThisRun(volume_data, "Volume")
        /\ Keys(correlation_matrix) \subseteq Range(selected_stocks)
        /\ Keys(price_changes) \subseteq Range(selected_stocks)
        /\ Keys(technical_indicators) \subseteq Range(selected_stocks)
        /\ Keys(normalized_data) \subseteq Range(selected_stocks)

\* a completed run with tables repeats the inputs of a run recorded earlier
C9_Witness ==
    /\ outcome = "end"
    /\ \E r \in runs : r.at < now /\ r.inputs = Inputs(selected_stocks, provider)

\* the samples of a history in the 2-day bucket k counted from its first day
Bucket(hist, k) ==
    {d \in DOMAIN hist :
        /\ Min(DOMAIN hist) + 2 * k <= d
        /\ d < Min(DOMAIN hist) + 2 * k + 2}

BucketCount(hist) == ((Max(DOMAIN hist) - Min(DOMAIN hist)) \div 2) + 1

\* C10: the resampled series of a ticker have exactly the buckets from the
\* first to the last; a bucket's price is the last close in it, or the
\* bucket before's price when it has no sample; its volume is the sum of the
\* volumes in it, 0 without samples; a history within one bucket gives one
\* bucket; the closes 10, 12, 9, 15, 20 on 5 days in a row give 12, 15, 20.
C10_Resample ==
    \A t \in DOMAIN resampled :
        LET hist == provider[t].hist
            first == Min(DOMAIN hist)
            n == BucketCount(hist)
            price == [k \in 0 .. (n - 1) |-> resampled[t].close[first + 2 * k]]
            volume == [k \in 0 .. (n - 1) |-> resampled[t].volume[first + 2 * k]]
        IN  /\ DOMAIN resampled[t].close = {first + 2 * k : k \in 0 .. (n - 1)}
            /\ DOMAIN resampled[t].volume = {first + 2 * k : k \in 0 .. (n - 1)}
            /\ \A k \in 0 .. (n - 1) :
                  /\ price[k] = IF Bucket(hist, k) # {}
                                THEN hist[Max(Bucket(hist, k))].Close
                                ELSE price[k - 1]
                  /\ volume[k] =
                        SumOver([d \in DOMAIN hist |-> hist[d].Volume], Bucket(hist, k))
            /\ Max(DOMAIN hist) - first < 2 => Cardinality(DOMAIN resampled[t].close) = 1
            /\ (DOMAIN hist = first .. (first + 4)
                 /\ \A d \in DOMAIN hist : hist[d].Close = ScenarioCloses[d - first + 1])
               => /\ n = 3
                  /\ price = [k \in 0 .. 2 |-> ScenarioCloses[IF k = 2 THEN 5 ELSE 2 * k + 2]]

\* a history with a bucket without samples has been resampled
C10_Witness ==
    \E t \in DOMAIN resampled :
        \E k \in 0 .. (BucketCount(provider[t].hist) - 1) :
            /\ Bucket(provider[t].hist, k) = {}
            /\ resampled[t].volume[Min(DOMAIN provider[t].hist) + 2 * k] = 0

=============================================================================
